---------------------------- MODULE Spec2Model ----------------------------
(***************************************************************************)
(* Model of src/features/topological.py (class TopoFeature).               *)
(*                                                                         *)
(* Floating-point values are records [t, n, d]:                            *)
(*   t = "num"  : the rational n/d (d > 0, lowest terms)                   *)
(*   t = "sqrt" : the square root of the rational n/d (not a perfect       *)
(*                square), as produced by np.std                           *)
(*   t = "big"  : sqrt(DBL_MAX), what distance_transform_bf stores in a    *)
(*                foreground cell when the image has no background cell    *)
(*   t = "nbig" : -sqrt(DBL_MAX)                                           *)
(*   t = "inf", "ninf", "nan" : +infinity, -infinity, NaN                  *)
(*   t = "none" : Python's None (argument max_finite_value only)           *)
(* Dictionary keys are sequences of the atoms that the f-strings join      *)
(* with "_": f'{prefix}_birth_min' with prefix 'cubical_tumor_immune' is   *)
(* <<"cubical","tumor","immune","birth","min">>.                           *)
(***************************************************************************)
EXTENDS Integers, Sequences, FiniteSets, TLC

VARIABLES
    pc,               \* position of the running call
    npts,             \* number of points of each cell type in the image
    densities,        \* compute_kde: densities[i][cell]
    class_map,        \* compute_kde: the grid of assigned type indices
    pair,             \* <<cell_type1, cell_type2>> of the call under way
    sedt3,            \* compute_cubical_complex_pair: the signed field
    sample,           \* compute_witness_complex_pair: sizes requested
    diag,             \* persistence diagram handed to the summarizer
    prefix,           \* extract_persistence_stats: prefix (atoms)
    exclude_infinite, \* extract_persistence_stats / pipeline flag
    max_finite_value, \* extract_persistence_stats: replacement or None
    stats,            \* extract_persistence_stats: the returned dict
    again,            \* the dict returned by a second, identical call
    mode,             \* "all": compute_all_features, "by_dim": ..._by_dimension
    all_stats,        \* the merged dict of the pipeline
    k,                \* index of the next computation of the pipeline
    failed,           \* computations whose try block raised
    used,             \* diagram each non-failing computation produced
    sampled           \* pairs for which subsampling was invoked

vars == <<pc, npts, densities, class_map, pair, sedt3, sample, diag, prefix,
          exclude_infinite, max_finite_value, stats, again, mode, all_stats,
          k, failed, used, sampled>>

-----------------------------------------------------------------------------
(* Bounds of the model *)

MaxVal == 1        \* births and finite deaths range over 0..MaxVal (tenths)
MaxDiagLen == 2    \* longest diagram handed to the summarizer alone
MaxSmall == 60     \* point counts 0..MaxSmall, and
Margin == 2        \* counts within Margin of the 2000 threshold
GridRows == 2      \* the grid of the signed-field calls is GridRows x GridCols
GridCols == 2
Precision == 10    \* distances are kept to 1/Precision
ImgRows == 1       \* the density grid of a run is ImgRows x ImgCols
ImgCols == 1
MaxDensity == 2    \* a density at a cell ranges over 0..MaxDensity

-----------------------------------------------------------------------------
(* Floating-point values *)

Abs(x) == IF x < 0 THEN -x ELSE x

RECURSIVE GCD(_, _)
GCD(a, b) == IF b = 0 THEN a ELSE GCD(b, a % b)

Frac(n, d) ==
    LET g == GCD(Abs(n), Abs(d))
        s == IF d < 0 THEN -1 ELSE 1
    IN  [t |-> "num", n |-> (s * n) \div g, d |-> (s * d) \div g]

Num(n) == [t |-> "num", n |-> n, d |-> 1]
Inf    == [t |-> "inf",  n |-> 0, d |-> 0]
NegInf == [t |-> "ninf", n |-> 0, d |-> 0]
NaN    == [t |-> "nan",  n |-> 0, d |-> 0]
Big    == [t |-> "big",  n |-> 0, d |-> 0]
NegBig == [t |-> "nbig", n |-> 0, d |-> 0]
None   == [t |-> "none", n |-> 0, d |-> 0]

IsNan(x) == x.t = "nan"
IsInf(x) == x.t \in {"inf", "ninf"}
IsNum(x) == x.t = "num"
IsFinite(x) == x.t \in {"num", "sqrt", "big", "nbig"}

\* a - b in IEEE arithmetic.  Big - x rounds to Big for every grid-sized x
\* (the spacing of doubles near sqrt(DBL_MAX) is 2^459), Big - Big is 0.
FSub(a, b) ==
    CASE IsNan(a) \/ IsNan(b)            -> NaN
      [] a.t = "inf"                     -> IF b.t = "inf" THEN NaN ELSE Inf
      [] a.t = "ninf"                    -> IF b.t = "ninf" THEN NaN ELSE NegInf
      [] b.t = "inf"                     -> NegInf
      [] b.t = "ninf"                    -> Inf
      [] a.t = "big"                     -> IF b.t = "big" THEN Num(0) ELSE Big
      [] b.t = "big"                     -> NegBig
      [] OTHER                           -> Frac(a.n * b.d - b.n * a.d, a.d * b.d)

\* a < b on non-NaN values ("sqrt" values are never compared)
FLess(a, b) ==
    CASE a.t = b.t /\ a.t # "num"        -> FALSE
      [] a.t = "ninf"                    -> TRUE
      [] b.t = "ninf"                    -> FALSE
      [] b.t = "inf"                     -> TRUE
      [] a.t = "inf"                     -> FALSE
      [] b.t = "big"                     -> TRUE
      [] a.t = "big"                     -> FALSE
      [] a.t = "nbig"                    -> TRUE
      [] b.t = "nbig"                    -> FALSE
      [] OTHER                           -> a.n * b.d < b.n * a.d

Range(s) == {s[i] : i \in DOMAIN s}

-----------------------------------------------------------------------------
(* numpy reductions over a non-empty sequence of values *)

RECURSIVE SumNum(_), SumDen(_)
\* the finite sum of s as the fraction SumNum(s) / SumDen(s)
SumDen(s) == IF s = <<>> THEN 1 ELSE Head(s).d * SumDen(Tail(s))
SumNum(s) ==
    IF s = <<>> THEN 0
    ELSE Head(s).n * SumDen(Tail(s)) + SumNum(Tail(s)) * Head(s).d

HasNan(s) == \E i \in DOMAIN s : IsNan(s[i])

NpMin(s) ==
    IF HasNan(s) THEN NaN
    ELSE CHOOSE x \in Range(s) : \A y \in Range(s) : ~FLess(y, x)

NpMax(s) ==
    IF HasNan(s) THEN NaN
    ELSE CHOOSE x \in Range(s) : \A y \in Range(s) : ~FLess(x, y)

AllOf(s, tag) == \A i \in DOMAIN s : s[i].t = tag

\* a diagram of the pipeline never mixes Big with other finite values (the
\* field of a pair is Big on every finite cell or on none), so the mean of
\* such a mixture is left undefined
NpMean(s) ==
    CASE HasNan(s)                                   -> NaN
      [] Inf \in Range(s) /\ NegInf \in Range(s)      -> NaN
      [] Inf \in Range(s)                             -> Inf
      [] NegInf \in Range(s)                          -> NegInf
      [] AllOf(s, "big")                              -> Big
      [] AllOf(s, "nbig")                             -> NegBig
      [] AllOf(s, "num")                              -> Frac(SumNum(s), SumDen(s) * Len(s))

RECURSIVE ISqrt(_, _)
\* the largest r >= from with r * r <= n
ISqrt(n, from) == IF (from + 1) * (from + 1) > n THEN from ELSE ISqrt(n, from + 1)

\* the square root of a non-negative rational
FSqrt(v) ==
    LET rn == ISqrt(v.n, 0)
        rd == ISqrt(v.d, 0)
    IN  IF rn * rn = v.n /\ rd * rd = v.d THEN Frac(rn, rd)
        ELSE [t |-> "sqrt", n |-> v.n, d |-> v.d]

\* population standard deviation: sqrt(mean(|x - mean(x)|^2)); an infinite
\* entry makes x - mean(x) NaN
NpStd(s) ==
    CASE \E i \in DOMAIN s : IsNan(s[i]) \/ IsInf(s[i])  -> NaN
      [] AllOf(s, "big") \/ AllOf(s, "nbig")             -> Num(0)
      [] AllOf(s, "num") ->
            LET m   == NpMean(s)
                dev == [i \in DOMAIN s |-> FSub(s[i], m)]
                sq  == [i \in DOMAIN s |-> Frac(dev[i].n * dev[i].n, dev[i].d * dev[i].d)]
            IN  FSqrt(NpMean(sq))

-----------------------------------------------------------------------------
(* extract_persistence_stats *)

\* the statistics' names, split at "_"
StatNames ==
    << <<"birth", "min">>, <<"birth", "max">>, <<"birth", "mean">>, <<"birth", "std">>,
       <<"death", "min">>, <<"death", "max">>, <<"death", "mean">>, <<"death", "std">>,
       <<"lifetime", "min">>, <<"lifetime", "max">>, <<"lifetime", "mean">>,
       <<"lifetime", "std">>, <<"n", "features">> >>

NFeatures == <<"n", "features">>

\* f'{p}_{name}'
Key(p, name) == p \o name

Keys(p) == {Key(p, StatNames[i]) : i \in DOMAIN StatNames}

\* mutant of MissingStats: the literal lacks its n_features entry
MissingStatsNoCount(p) ==
    [key \in Keys(p) \ {Key(p, NFeatures)} |-> NaN]

\* the dict literal of lines 237-251 and of lines 293-307
MissingStats(p) ==
    [key \in Keys(p) |-> IF key = Key(p, NFeatures) THEN Num(0) ELSE NaN]

\* mutant of Collect: an infinite death is never replaced
RECURSIVE CollectNoReplace(_, _, _, _, _)
CollectNoReplace(dg, i, excl, mfv, acc) ==
    IF i > Len(dg) THEN acc
    ELSE LET birth == dg[i][2][1]
             death == dg[i][2][2]
         IN  IF IsInf(death) /\ excl
             THEN CollectNoReplace(dg, i + 1, excl, mfv, acc)
             ELSE CollectNoReplace(dg, i + 1, excl, mfv,
                                   [births |-> Append(acc.births, birth),
                                    deaths |-> Append(acc.deaths, death)])

\* mutant of Collect: the continue of line 263 is missing
RECURSIVE CollectNoSkip(_, _, _, _, _)
CollectNoSkip(dg, i, excl, mfv, acc) ==
    IF i > Len(dg) THEN acc
    ELSE LET birth == dg[i][2][1]
             death == dg[i][2][2]
             d2    == IF IsInf(death) /\ ~excl /\ mfv # None THEN mfv ELSE death
         IN  CollectNoSkip(dg, i + 1, excl, mfv,
                           [births |-> Append(acc.births, birth),
                            deaths |-> Append(acc.deaths, d2)])

\* the loop of lines 257-268 over diag[i..]: the births and the deaths kept
RECURSIVE Collect(_, _, _, _, _)
Collect(dg, i, excl, mfv, acc) ==
    IF i > Len(dg) THEN acc
    ELSE LET birth == dg[i][2][1]
             death == dg[i][2][2]
         IN  IF IsInf(death) /\ excl
             THEN Collect(dg, i + 1, excl, mfv, acc)
             ELSE LET d2 == IF IsInf(death) /\ mfv # None THEN mfv ELSE death
                  IN  Collect(dg, i + 1, excl, mfv,
                              [births |-> Append(acc.births, birth),
                               deaths |-> Append(acc.deaths, d2)])

\* the dict literal of lines 277-291
ComputedStats(p, births, deaths) ==
    LET lifetimes == [i \in DOMAIN births |-> FSub(deaths[i], births[i])]
        Of(name) ==
            LET arr == CASE name[1] = "birth" -> births
                         [] name[1] = "death" -> deaths
                         [] OTHER             -> lifetimes
            IN  CASE name = NFeatures  -> Num(Len(births))
                  [] name[2] = "min"   -> NpMin(arr)
                  [] name[2] = "max"   -> NpMax(arr)
                  [] name[2] = "mean"  -> NpMean(arr)
                  [] OTHER             -> NpStd(arr)
    IN  [key \in Keys(p) |->
            Of(CHOOSE name \in Range(StatNames) : Key(p, name) = key)]

extract_persistence_stats(dg, p, excl, mfv) ==
    IF dg = <<>> THEN MissingStats(p)
    ELSE LET kept == Collect(dg, 1, excl, mfv, [births |-> <<>>, deaths |-> <<>>])
         IN  IF Len(kept.births) > 0
             THEN ComputedStats(p, kept.births, kept.deaths)
             ELSE MissingStats(p)

-----------------------------------------------------------------------------
(* The summarizer called alone: SpecStats *)

Dimensions == <<0, 1>>          \* the default of parameter dimensions

\* (dimension, (birth, death)) with birth <= death, death possibly infinite
Intervals ==
    {<<dim, <<Num(b), Inf>>>> : dim \in Range(Dimensions), b \in 0..MaxVal}
    \cup
    {<<dim, <<Num(bd[1]), Num(bd[2])>>>> :
        dim \in Range(Dimensions),
        bd \in {x \in (0..MaxVal) \X (0..MaxVal) : x[1] <= x[2]}}

Diagrams == UNION {[1..n -> Intervals] : n \in 0..MaxDiagLen}

Prefixes == {<<"">>, <<"cubical", "tumor", "immune">>}

\* None, and 1.0 in tenths
ReplacementValues == {None, Num(10)}

Idle == [t |-> "idle"]

NoKde      == npts = Idle /\ densities = Idle /\ class_map = Idle
NoCubical  == pair = Idle /\ sedt3 = Idle
NoWitness  == sample = Idle
NoStats    == /\ diag = Idle /\ prefix = Idle /\ max_finite_value = Idle
              /\ stats = Idle /\ again = Idle
NoPipeline == /\ mode = Idle /\ all_stats = Idle /\ k = 0 /\ failed = {}
              /\ used = Idle /\ sampled = {}

InitStats ==
    /\ pc = "call"
    /\ diag \in Diagrams
    /\ prefix \in Prefixes
    /\ exclude_infinite \in BOOLEAN
    /\ max_finite_value \in ReplacementValues
    /\ stats = Idle /\ again = Idle
    /\ NoKde /\ NoCubical /\ NoWitness /\ NoPipeline

Summarize ==
    /\ pc = "call"
    /\ stats' = extract_persistence_stats(diag, prefix, exclude_infinite, max_finite_value)
    /\ pc' = "returned"
    /\ UNCHANGED <<npts, densities, class_map, pair, sedt3, sample, diag, prefix,
                   exclude_infinite, max_finite_value, again, mode, all_stats, k,
                   failed, used, sampled>>

SummarizeAgain ==
    /\ pc = "returned"
    /\ again' = extract_persistence_stats(diag, prefix, exclude_infinite, max_finite_value)
    /\ pc' = "repeated"
    /\ UNCHANGED <<npts, densities, class_map, pair, sedt3, sample, diag, prefix,
                   exclude_infinite, max_finite_value, stats, mode, all_stats, k,
                   failed, used, sampled>>

NextStats == Summarize \/ SummarizeAgain

SpecStats == InitStats /\ [][NextStats]_vars

-----------------------------------------------------------------------------
(* compute_witness_complex_pair, over the numbers of points of the two types *)

CellTypes == {"immune", "stromal", "tumor"}

\* self.cell_pairs
cell_pairs == << <<"tumor", "immune">>, <<"tumor", "stromal">>, <<"immune", "stromal">> >>

MinTypePoints == 3       \* line 185
SampleThreshold == 2000  \* line 190
SampleDivisor == 10      \* line 191
SampleCap == 200         \* line 193
MinSample == 3           \* line 197

Max2(a, b) == IF a >= b THEN a ELSE b
Min2(a, b) == IF a <= b THEN a ELSE b

\* mutant of nb_points: the clamp of line 196 is missing
nb_points_unclamped(n1, n2) ==
    LET m == Max2(n1, n2)
        base == IF m <= SampleThreshold THEN m \div SampleDivisor ELSE SampleCap
    IN  Max2(base, MinSample)

\* lines 190-197; int(m / 10) truncates the quotient of two non-negative numbers
nb_points(n1, n2) ==
    LET m == Max2(n1, n2)
        base == IF m <= SampleThreshold THEN m \div SampleDivisor ELSE SampleCap
    IN  Max2(Min2(base, Min2(n1, n2)), MinSample)

\* What the homology library may return for a witness complex on at least
\* three landmarks: the component that never dies, possibly with a finite
\* interval or a loop.
EssentialH0 == <<0, <<Num(0), Inf>>>>

WitnessDiagrams ==
    { <<EssentialH0>>,
      << <<1, <<Num(1), Inf>>>>, EssentialH0, <<0, <<Num(0), Num(1)>>>> >> }

NotSampled == [invoked |-> FALSE, landmarks |-> 0, witnesses |-> 0]

\* mutant of compute_witness_complex_pair: line 185 tests with "and"
compute_witness_both_short(n1, n2, dgm) ==
    IF n1 < MinTypePoints /\ n2 < MinTypePoints
    THEN [sample |-> NotSampled, diag |-> <<>>]
    ELSE [sample |-> [invoked |-> TRUE,
                      landmarks |-> nb_points(n1, n2),
                      witnesses |-> nb_points(n1, n2)],
          diag |-> dgm]

\* lines 181-211: what is requested of the subsampler, and the diagram; dgm is
\* the diagram the library computes when it is reached
compute_witness_complex_pair(n1, n2, dgm) ==
    IF n1 < MinTypePoints \/ n2 < MinTypePoints
    THEN [sample |-> NotSampled, diag |-> <<>>]
    ELSE [sample |-> [invoked |-> TRUE,
                      landmarks |-> nb_points(n1, n2),
                      witnesses |-> nb_points(n1, n2)],
          diag |-> dgm]

\* the numbers of points tried for one type
Sizes ==
    (0..MaxSmall) \cup ((SampleThreshold - Margin)..(SampleThreshold + Margin))

InitWitness ==
    /\ pc = "call"
    /\ \E i \in DOMAIN cell_pairs : pair = cell_pairs[i]
    /\ \E n1 \in Sizes, n2 \in Sizes :
          npts = [t \in CellTypes |->
                    IF t = pair[1] THEN n1 ELSE IF t = pair[2] THEN n2 ELSE 0]
    /\ sample = Idle /\ diag = Idle
    /\ densities = Idle /\ class_map = Idle /\ sedt3 = Idle
    /\ prefix = Idle /\ max_finite_value = Idle /\ stats = Idle /\ again = Idle
    /\ exclude_infinite = TRUE
    /\ NoPipeline

WitnessCall ==
    /\ pc = "call"
    /\ \E dgm \in WitnessDiagrams :
          LET r == compute_witness_complex_pair(npts[pair[1]], npts[pair[2]], dgm)
          IN  sample' = r.sample /\ diag' = r.diag
    /\ pc' = "returned"
    /\ UNCHANGED <<npts, densities, class_map, pair, sedt3, prefix, exclude_infinite,
                   max_finite_value, stats, again, mode, all_stats, k, failed, used,
                   sampled>>

NextWitness == WitnessCall

SpecWitness == InitWitness /\ [][NextWitness]_vars

-----------------------------------------------------------------------------
(* compute_cubical_complex_pair: the signed field of lines 128-150 *)

type_to_idx == [immune |-> 0, stromal |-> 1, tumor |-> 2]

Cells(rows, cols) == (1..rows) \X (1..cols)

DistSq(a, b) == (a[1] - b[1]) * (a[1] - b[1]) + (a[2] - b[2]) * (a[2] - b[2])

\* the square root of an integer, to 1/Precision
Euclid(dsq) == Frac(ISqrt(dsq * Precision * Precision, 0), Precision)

SetMin(S) == CHOOSE x \in S : \A y \in S : x <= y

\* mutant of distance_transform_bf: an image without background is infinitely
\* far from it
distance_transform_inf(img) ==
    LET bg == {b \in DOMAIN img : img[b] = 0}
    IN  [c \in DOMAIN img |->
            IF img[c] = 0 THEN Num(0)
            ELSE IF bg = {} THEN Inf
            ELSE Euclid(SetMin({DistSq(c, b) : b \in bg}))]

\* scipy.ndimage.distance_transform_bf(img, metric='euclidean'): a zero cell
\* gets 0, a non-zero cell its distance to the nearest zero cell; the search
\* starts from DBL_MAX for the squared distance, which is what is left when
\* there is no zero cell
distance_transform_bf(img) ==
    LET bg == {b \in DOMAIN img : img[b] = 0}
    IN  [c \in DOMAIN img |->
            IF img[c] = 0 THEN Num(0)
            ELSE IF bg = {} THEN Big
            ELSE Euclid(SetMin({DistSq(c, b) : b \in bg}))]

\* mutant of SignedField: line 150 is missing
SignedFieldUnmasked(cm, t1, t2) ==
    LET idx1 == type_to_idx[t1]
        idx2 == type_to_idx[t2]
        dist_type1 == distance_transform_bf([c \in DOMAIN cm |-> IF cm[c] = idx1 THEN 1 ELSE 0])
        dist_type2 == distance_transform_bf([c \in DOMAIN cm |-> 1 - (IF cm[c] = idx2 THEN 1 ELSE 0)])
    IN  [c \in DOMAIN cm |-> FSub(dist_type2[c], dist_type1[c])]

\* lines 128-150
SignedField(cm, t1, t2) ==
    LET idx1 == type_to_idx[t1]
        idx2 == type_to_idx[t2]
        grid_type1 == [c \in DOMAIN cm |-> IF cm[c] = idx1 THEN 1 ELSE 0]
        grid_type2 == [c \in DOMAIN cm |-> IF cm[c] = idx2 THEN 1 ELSE 0]
        dist_type1 == distance_transform_bf(grid_type1)
        dist_type2 == distance_transform_bf([c \in DOMAIN cm |-> 1 - grid_type2[c]])
        other_idx  == {i \in 0..2 : i \notin {idx1, idx2}}
    IN  [c \in DOMAIN cm |->
            IF cm[c] \in other_idx THEN Inf ELSE FSub(dist_type2[c], dist_type1[c])]

\* every ordered pair of distinct types
TypePairs == {tp \in CellTypes \X CellTypes : tp[1] # tp[2]}

InitField ==
    /\ pc = "call"
    /\ class_map \in [Cells(GridRows, GridCols) -> 0..2]
    /\ pair \in TypePairs
    /\ sedt3 = Idle
    /\ npts = Idle /\ densities = Idle
    /\ exclude_infinite = TRUE
    /\ NoWitness /\ NoStats /\ NoPipeline

BuildSignedField ==
    /\ pc = "call"
    /\ sedt3' = SignedField(class_map, pair[1], pair[2])
    /\ pc' = "returned"
    /\ UNCHANGED <<npts, densities, class_map, pair, sample, diag, prefix,
                   exclude_infinite, max_finite_value, stats, again, mode, all_stats,
                   k, failed, used, sampled>>

NextField == BuildSignedField

SpecField == InitField /\ [][NextField]_vars

-----------------------------------------------------------------------------
(* compute_kde *)

\* self.ordered_celltype, indexed from 0
ordered_celltype == [i \in 0..2 |-> CASE i = 0 -> "immune" [] i = 1 -> "stromal" [] i = 2 -> "tumor"]

\* numbers of points of one type: none, too few for the witness complex, enough
PointCounts == {0, 2, 30}

Images == [CellTypes -> PointCounts]

ImgCells == Cells(ImgRows, ImgCols)

\* position of a cell in the raveled grid
Flat(c) == (c[1] - 1) * ImgCols + c[2]

\* mutant of ArgMax: the last maximum wins
ArgMaxLast(col) ==
    CHOOSE i \in DOMAIN col :
        /\ \A j \in DOMAIN col : col[j] <= col[i]
        /\ \A j \in DOMAIN col : j > i => col[j] < col[i]

\* np.argmax over axis 0, at one cell: the first index of the maximum
ArgMax(col) ==
    CHOOSE i \in DOMAIN col :
        /\ \A j \in DOMAIN col : col[j] <= col[i]
        /\ \A j \in DOMAIN col : j < i => col[j] < col[i]

\* the columns densities[:, c] may hold: row i stays zero when type i has no
\* points (line 99), the others are what the fitted estimators evaluate to
Columns(n) ==
    {col \in [0..2 -> 0..MaxDensity] :
        \A i \in 0..2 : n[ordered_celltype[i]] = 0 => col[i] = 0}

\* line 100 raises when the points of a type span no area (always so for a
\* single point, and for two points up to rounding): nothing catches it
KdeRaise ==
    /\ pc = "kde"
    /\ \E t \in CellTypes : npts[t] > 0
    /\ pc' = "aborted"
    /\ UNCHANGED <<npts, densities, class_map, pair, sedt3, sample, diag, prefix,
                   exclude_infinite, max_finite_value, stats, again, mode, all_stats,
                   k, failed, used, sampled>>

\* lines 95-101: every type with points is fitted
KdeFit ==
    /\ pc = "kde"
    /\ \A t \in CellTypes : npts[t] # 1
    /\ pc' = "kde_eval"
    /\ UNCHANGED <<npts, densities, class_map, pair, sedt3, sample, diag, prefix,
                   exclude_infinite, max_finite_value, stats, again, mode, all_stats,
                   k, failed, used, sampled>>

\* lines 101 and 104 at the next cell of the raveled grid
KdeCell ==
    /\ pc = "kde_eval"
    /\ \E c \in ImgCells \ DOMAIN class_map :
          /\ \A b \in ImgCells \ DOMAIN class_map : Flat(c) <= Flat(b)
          /\ \E col \in Columns(npts) :
                /\ densities' = col
                /\ class_map' = [x \in DOMAIN class_map \cup {c} |->
                                    IF x = c THEN ArgMax(col) ELSE class_map[x]]
    /\ UNCHANGED <<pc, npts, pair, sedt3, sample, diag, prefix,
                   exclude_infinite, max_finite_value, stats, again, mode, all_stats,
                   k, failed, used, sampled>>

\* line 106
KdeReturn ==
    /\ pc = "kde_eval"
    /\ DOMAIN class_map = ImgCells
    /\ densities' = Idle
    /\ pc' = "kde_returned"
    /\ UNCHANGED <<npts, class_map, pair, sedt3, sample, diag, prefix,
                   exclude_infinite, max_finite_value, stats, again, mode, all_stats,
                   k, failed, used, sampled>>

InitKde ==
    /\ pc = "kde"
    /\ npts \in Images
    /\ densities = Idle
    /\ class_map = <<>>
    /\ exclude_infinite = TRUE
    /\ NoCubical /\ NoWitness /\ NoStats /\ NoPipeline

NextKde == KdeRaise \/ KdeFit \/ KdeCell \/ KdeReturn

SpecKde == InitKde /\ [][NextKde]_vars

-----------------------------------------------------------------------------
(* compute_all_features and compute_features_by_dimension *)

\* What the homology library may return for the cubical complex of a field:
\* births and deaths are values of cells, an interval has death > birth, and
\* the component born first never dies.  Besides that component the model
\* lets the library report one loop, born at the least and dying at the
\* greatest finite value, when the field has two finite values.  Of a field
\* that is +inf everywhere it may report that component or nothing at all.
CubicalDiagrams(field) ==
    LET values == {field[c] : c \in DOMAIN field}
        finite == {v \in values : ~IsInf(v)}
        first  == CHOOSE v \in values : \A w \in values : ~FLess(w, v)
        lo     == CHOOSE v \in finite : \A w \in finite : ~FLess(w, v)
        hi     == CHOOSE v \in finite : \A w \in finite : ~FLess(v, w)
        essential == <<0, <<first, Inf>>>>
    IN  { <<essential>> } \cup
        (IF finite # {} /\ FLess(lo, hi)
         THEN { << <<1, <<lo, hi>>>>, essential >> } ELSE {}) \cup
        (IF finite = {} THEN { <<>> } ELSE {})

\* f'h{dim}'
DimAtom(dim) == CASE dim = 0 -> "h0" [] dim = 1 -> "h1" [] dim = 2 -> "h2"

\* dict.update
Update(a, b) ==
    [key \in DOMAIN a \cup DOMAIN b |-> IF key \in DOMAIN b THEN b[key] ELSE a[key]]

\* [(d, interval) for d, interval in dgm if d == dim]
FilterDim(dgm, dim) ==
    LET Test(iv) == iv[1] = dim
    IN  SelectSeq(dgm, Test)

\* the loops over dimensions of lines 422-430, 433-439, 445-453, 456-462
RECURSIVE UpdateByDim(_, _, _, _, _)
UpdateByDim(acc, dgm, p, excl, i) ==
    IF i > Len(Dimensions) THEN acc
    ELSE UpdateByDim(
            Update(acc, extract_persistence_stats(FilterDim(dgm, Dimensions[i]),
                                                  p \o <<DimAtom(Dimensions[i])>>,
                                                  excl, None)),
            dgm, p, excl, i + 1)

\* all_stats after the statistics of diagram dgm are merged under prefix p
Merged(acc, md, dgm, p, excl) ==
    IF md = "all"
    THEN Update(acc, extract_persistence_stats(dgm, p, excl, None))
    ELSE UpdateByDim(acc, dgm, p, excl, 1)

\* the computations of a run, in order: for each pair the cubical, then the
\* witness complex
NumComputations == 2 * Len(cell_pairs)
PairOf(j) == cell_pairs[(j + 1) \div 2]
IsCubical(j) == j % 2 = 1

\* mutant of PrefixOf: the witness block reuses the cubical prefix
PrefixOfCopied(j) == <<"cubical", PairOf(j)[1], PairOf(j)[2]>>

\* f'cubical_{pair_name}' and f'witness_{pair_name}'
PrefixOf(j) ==
    <<IF IsCubical(j) THEN "cubical" ELSE "witness", PairOf(j)[1], PairOf(j)[2]>>

InitPipeline ==
    /\ pc = "kde"
    /\ npts \in Images
    /\ mode \in {"all", "by_dim"}
    /\ exclude_infinite \in BOOLEAN
    /\ densities = Idle
    /\ class_map = <<>>
    /\ all_stats = <<>>
    /\ k = 1
    /\ failed = {}
    /\ used = <<>>
    /\ sampled = {}
    /\ NoCubical /\ NoWitness /\ NoStats

\* lines 342-359 (420-439): one pair's cubical block, with its except clause
CubicalStep ==
    /\ pc = "kde_returned"
    /\ k <= NumComputations /\ IsCubical(k)
    /\ \/ /\ failed' = failed \cup {k}
          /\ all_stats' = Merged(all_stats, mode, <<>>, PrefixOf(k), exclude_infinite)
          /\ used' = used
       \/ \E dgm \in CubicalDiagrams(SignedField(class_map, PairOf(k)[1], PairOf(k)[2])) :
             /\ all_stats' = Merged(all_stats, mode, dgm, PrefixOf(k), exclude_infinite)
             /\ used' = Update(used, [j \in {k} |-> dgm])
             /\ failed' = failed
    /\ k' = k + 1
    /\ UNCHANGED <<pc, npts, densities, class_map, pair, sedt3, sample, diag, prefix,
                   exclude_infinite, max_finite_value, stats, again, mode, sampled>>

\* lines 361-378 (442-462): one pair's witness block, with its except clause;
\* the library raises after the subsampling, if at all
WitnessStep ==
    /\ pc = "kde_returned"
    /\ k <= NumComputations /\ ~IsCubical(k)
    /\ \E dgm \in WitnessDiagrams, raises \in BOOLEAN :
          LET r == compute_witness_complex_pair(npts[PairOf(k)[1]], npts[PairOf(k)[2]], dgm)
          IN  /\ sampled' = IF r.sample.invoked THEN sampled \cup {PairOf(k)} ELSE sampled
              /\ IF raises
                 THEN /\ failed' = failed \cup {k}
                      /\ all_stats' = Merged(all_stats, mode, <<>>, PrefixOf(k),
                                              exclude_infinite)
                      /\ used' = used
                 ELSE /\ all_stats' = Merged(all_stats, mode, r.diag, PrefixOf(k),
                                              exclude_infinite)
                      /\ used' = Update(used, [j \in {k} |-> r.diag])
                      /\ failed' = failed
    /\ k' = k + 1
    /\ UNCHANGED <<pc, npts, densities, class_map, pair, sedt3, sample, diag, prefix,
                   exclude_infinite, max_finite_value, stats, again, mode>>

\* lines 380-383 (464-467)
ReturnFeatures ==
    /\ pc = "kde_returned"
    /\ k > NumComputations
    /\ pc' = "done"
    /\ UNCHANGED <<npts, densities, class_map, pair, sedt3, sample, diag, prefix,
                   exclude_infinite, max_finite_value, stats, again, mode, all_stats,
                   k, failed, used, sampled>>

NextPipeline ==
    \/ KdeRaise \/ KdeFit \/ KdeCell \/ KdeReturn
    \/ CubicalStep \/ WitnessStep \/ ReturnFeatures

SpecPipeline == InitPipeline /\ [][NextPipeline]_vars

Init == InitPipeline
Next == NextPipeline
Spec == SpecPipeline

-----------------------------------------------------------------------------
(* Claims about extract_persistence_stats (checked under SpecStats) *)

Returned == pc \in {"returned", "repeated"}

\* rec is the all-missing record under prefix p: the twelve statistics are
\* NaN and n_features is 0
IsAllMissing(rec, p) ==
    /\ DOMAIN rec = Keys(p)
    /\ \A i \in DOMAIN StatNames :
          rec[Key(p, StatNames[i])] = IF StatNames[i] = NFeatures THEN Num(0) ELSE NaN

AllDeathsInfinite(dg) == \A i \in DOMAIN dg : IsInf(dg[i][2][2])

\* C2: the summarizer returns the all-missing record when the diagram is
\* empty, and when it is non-empty but every interval has an infinite death
\* and exclude_infinite is true.
C2_AllMissingWhenNothingRemains ==
    (Returned /\ (diag = <<>> \/ (exclude_infinite /\ AllDeathsInfinite(diag))))
        => IsAllMissing(stats, prefix)

C2_Witness ==
    /\ pc = "returned"
    /\ diag = << <<0, <<Num(1), Inf>>>> >>
    /\ exclude_infinite
    /\ IsAllMissing(stats, prefix)

\* the intervals the policy retains, deaths replaced
RetainedIntervals ==
    LET Keep(iv) == ~(IsInf(iv[2][2]) /\ exclude_infinite)
        Repl(iv) == IF IsInf(iv[2][2]) /\ max_finite_value # None
                    THEN <<iv[1], <<iv[2][1], max_finite_value>>>> ELSE iv
        kept == SelectSeq(diag, Keep)
    IN  [i \in DOMAIN kept |-> Repl(kept[i])]

IsLeast(x, s)    == x \in Range(s) /\ \A y \in Range(s) : ~FLess(y, x)
IsGreatest(x, s) == x \in Range(s) /\ \A y \in Range(s) : ~FLess(x, y)

\* C3: on a non-empty diagram the infinite-death policy is applied interval
\* by interval; n_features counts the retained intervals and the min, max
\* and mean of births, deaths and lifetimes are those of the retained
\* intervals after replacement; [(0, (0.1, inf))] with exclude_infinite
\* false and max_finite_value 1.0 gives means 0.1, 1.0, 0.9 and 1 feature.
C3_InfinitePolicyPerInterval ==
    (Returned /\ diag # <<>>) =>
        LET R  == RetainedIntervals
            bs == [i \in DOMAIN R |-> R[i][2][1]]
            ds == [i \in DOMAIN R |-> R[i][2][2]]
            ls == [i \in DOMAIN R |-> FSub(R[i][2][2], R[i][2][1])]
            S(a, b) == stats[prefix \o <<a, b>>]
        IN  /\ stats[Key(prefix, NFeatures)] = Num(Len(R))
            /\ Len(R) = IF exclude_infinite
                        THEN Cardinality({i \in DOMAIN diag : ~IsInf(diag[i][2][2])})
                        ELSE Len(diag)
            /\ Len(R) > 0 =>
                  /\ IsLeast(S("birth", "min"), bs) /\ IsGreatest(S("birth", "max"), bs)
                  /\ IsLeast(S("death", "min"), ds) /\ IsGreatest(S("death", "max"), ds)
                  /\ IsLeast(S("lifetime", "min"), ls)
                  /\ IsGreatest(S("lifetime", "max"), ls)
                  /\ S("birth", "mean") = NpMean(bs)
                  /\ S("death", "mean") = NpMean(ds)
                  /\ S("lifetime", "mean") = NpMean(ls)
            /\ (/\ diag = << <<0, <<Num(1), Inf>>>> >>
                /\ ~exclude_infinite /\ max_finite_value = Num(10)) =>
                  /\ S("birth", "mean") = Num(1)
                  /\ S("death", "mean") = Num(10)
                  /\ S("lifetime", "mean") = Num(9)
                  /\ S("n", "features") = Num(1)

C3_Witness ==
    /\ pc = "returned"
    /\ diag = << <<0, <<Num(1), Inf>>>> >>
    /\ ~exclude_infinite /\ max_finite_value = Num(10)
    /\ stats[Key(prefix, <<"death", "mean">>)] = Num(10)
    /\ stats[Key(prefix, NFeatures)] = Num(1)

-----------------------------------------------------------------------------
(* Claims about compute_witness_complex_pair (checked under SpecWitness) *)

\* C4: past the insufficient-data check the same number nb_points of
\* landmarks and of witnesses is requested, 3 <= nb_points <= min(|subset1|,
\* |subset2|); with m the larger size, the size before clamping is floor(m/10)
\* for m <= 2000 and 200 for m > 2000, and nb_points = max(3, min(base,
\* |subset1|, |subset2|)).
C4_SampleSizes ==
    LET n1 == npts[pair[1]]
        n2 == npts[pair[2]]
        m  == IF n1 >= n2 THEN n1 ELSE n2
        lo == IF n1 <= n2 THEN n1 ELSE n2
    IN  (pc = "returned" /\ n1 >= 3 /\ n2 >= 3) =>
            /\ sample.invoked
            /\ sample.landmarks = sample.witnesses
            /\ 3 <= sample.landmarks /\ sample.landmarks <= lo
            /\ \E base \in 0..m :
                  /\ IF m <= 2000 THEN 10 * base <= m /\ m < 10 * (base + 1)
                                  ELSE base = 200
                  /\ \/ base <= lo /\ sample.landmarks = (IF base >= 3 THEN base ELSE 3)
                     \/ base > lo /\ sample.landmarks = lo

C4_Witness ==
    /\ pc = "returned"
    /\ npts[pair[1]] = 2001 /\ npts[pair[2]] = 2002
    /\ sample.invoked /\ sample.landmarks = 200 /\ sample.witnesses = 200

-----------------------------------------------------------------------------
(* Claims about the signed field (checked under SpecField) *)

Idx1 == type_to_idx[pair[1]]
Idx2 == type_to_idx[pair[2]]

\* C7: the signed field is +infinity at exactly the cells labelled neither
\* idx1 nor idx2, and finite at every cell labelled idx1 or idx2, also when
\* the grid holds no idx1 cell, no idx2 cell or a single type.
C7_InfinityExactlyOnOtherTypes ==
    pc = "returned" =>
        \A c \in DOMAIN class_map :
            /\ (class_map[c] \notin {Idx1, Idx2}) <=> (sedt3[c] = Inf)
            /\ (class_map[c] \in {Idx1, Idx2}) => IsFinite(sedt3[c])

C7_Witness ==
    /\ pc = "returned"
    /\ \A c \in DOMAIN class_map : class_map[c] = Idx1
    /\ \A c \in DOMAIN class_map : sedt3[c] = Num(0)

\* C8: in the signed field of (type1, type2) every cell of type1's region is
\* negative and every cell of type2's region is positive (stated here for
\* the grids on which both regions are present).
C8_SignsSeparateRegions ==
    (/\ pc = "returned"
     /\ \E c \in DOMAIN class_map : class_map[c] = Idx1
     /\ \E c \in DOMAIN class_map : class_map[c] = Idx2) =>
        \A c \in DOMAIN class_map :
            /\ class_map[c] = Idx1 => FLess(sedt3[c], Num(0))
            /\ class_map[c] = Idx2 => FLess(Num(0), sedt3[c])

-----------------------------------------------------------------------------
(* Claims about compute_kde (checked under SpecKde) *)

\* the cell classified last
LastCell == CHOOSE c \in DOMAIN class_map : \A b \in DOMAIN class_map : Flat(b) <= Flat(c)

HasNoPoints(i) == npts[ordered_celltype[i]] = 0

\* C9: every cell gets exactly one index in {0,1,2}, the index of the largest
\* density there, ties going to the lowest index of immune=0, stromal=1,
\* tumor=2; a type without points has density zero everywhere and is assigned
\* only where all three densities are zero, and then it is index 0; without
\* any point the whole grid is index 0.
C9_ArgmaxLowestIndex ==
    /\ (pc = "kde_eval" /\ densities # Idle) =>
          LET i == class_map[LastCell]
          IN  /\ i \in 0..2
              /\ \A j \in 0..2 : densities[j] <= densities[i]
              /\ \A j \in 0..2 : j < i => densities[j] < densities[i]
              /\ \A j \in 0..2 : HasNoPoints(j) => densities[j] = 0
              /\ HasNoPoints(i) => (i = 0 /\ \A j \in 0..2 : densities[j] = 0)
    /\ pc = "kde_returned" =>
          /\ DOMAIN class_map = ImgCells
          /\ \A c \in ImgCells : class_map[c] \in 0..2
          /\ \A c \in ImgCells : HasNoPoints(class_map[c]) => class_map[c] = 0
          /\ (\A t \in CellTypes : npts[t] = 0) => \A c \in ImgCells : class_map[c] = 0

C9_Witness ==
    /\ pc = "kde_eval" /\ densities # Idle
    /\ npts["immune"] = 0 /\ npts["stromal"] > 0 /\ npts["tumor"] > 0
    /\ densities[1] = densities[2] /\ densities[1] > 0
    /\ class_map[LastCell] = 1

-----------------------------------------------------------------------------
(* Claims about the two pipelines (checked under SpecPipeline) *)

\* the dimensions a run reports separately (one record when it does not)
ReportedDims == IF mode = "all" THEN {0} ELSE {0, 1}

\* the prefix of the record of complex cx ("cubical", "witness") and pair pr
RecordPrefix(cx, pr, dim) ==
    IF mode = "all" THEN <<cx, pr[1], pr[2]>>
    ELSE <<cx, pr[1], pr[2], IF dim = 0 THEN "h0" ELSE "h1">>

ComplexOf(j) == IF j % 2 = 1 THEN "cubical" ELSE "witness"

\* the part of the merged record under prefix p
RecordUnder(p) == [key \in Keys(p) \cap DOMAIN all_stats |-> all_stats[key]]

Computations == 1..6

\* C1: whichever of the six (complex type x pair) computations raise, the
\* run completes with one record in which every failing combination has the
\* all-missing record under its own prefix (one per dimension in the
\* by-dimension mode), every other combination the summary of its own
\* diagram, and all 13 fields of every combination are present without
\* collision (6 x 13 fields in the non-dimension mode).
C1_FailuresAreIsolated ==
    /\ pc = "aborted" => (k = 1 /\ failed = {})
    /\ (pc = "kde_returned" /\ k > 6) => ENABLED ReturnFeatures
    /\ pc = "done" =>
          /\ \A j \in Computations, dim \in ReportedDims :
                LET p == RecordPrefix(ComplexOf(j), PairOf(j), dim)
                IN  IF j \in failed
                    THEN IsAllMissing(RecordUnder(p), p)
                    ELSE RecordUnder(p) =
                           extract_persistence_stats(
                               IF mode = "all" THEN used[j] ELSE FilterDim(used[j], dim),
                               p, exclude_infinite, None)
          /\ DOMAIN all_stats =
                UNION {Keys(RecordPrefix(ComplexOf(j), PairOf(j), dim)) :
                          j \in Computations, dim \in ReportedDims}
          /\ Cardinality(DOMAIN all_stats) = 6 * 13 * Cardinality(ReportedDims)

C1_Witness ==
    /\ pc = "done"
    /\ failed = {1, 4, 5}
    /\ mode = "by_dim"
    /\ Len(used[2]) = 3
    /\ all_stats[<<"witness", "tumor", "immune", "h0", "n", "features">>] = Num(1)
    /\ all_stats[<<"cubical", "tumor", "immune", "h0", "n", "features">>] = Num(0)

Insufficient(pr) == npts[pr[1]] < 3 \/ npts[pr[2]] < 3

\* C5: for a pair in which either type has fewer than 3 points the witness
\* computation returns an empty diagram without subsampling or building the
\* complex, and the pair's witness statistics are all-missing with
\* n_features = 0, in the by-dimension mode for every requested dimension.
C5_InsufficientPairsAllMissing ==
    \A j \in Computations :
        (pc \in {"kde_returned", "done"} /\ j < k /\ j % 2 = 0 /\ Insufficient(PairOf(j))) =>
            /\ PairOf(j) \notin sampled
            /\ j \notin failed => used[j] = <<>>
            /\ \A dim \in ReportedDims :
                  LET p == RecordPrefix("witness", PairOf(j), dim)
                  IN  IsAllMissing(RecordUnder(p), p)

C5_Witness ==
    /\ pc = "done"
    /\ npts["tumor"] = 30 /\ npts["immune"] = 2
    /\ mode = "by_dim"
    /\ 2 \notin failed /\ used[2] = <<>>
    /\ <<"tumor", "immune">> \notin sampled
    /\ all_stats[<<"witness", "tumor", "immune", "h1", "n", "features">>] = Num(0)
    /\ all_stats[<<"witness", "tumor", "immune", "h1", "birth", "min">>] = NaN

=============================================================================
